---- MODULE Spec2Model ----
(***************************************************************************)
(* A model of the patch descriptor of rust-vision (src/imagematch.rs and   *)
(* src/lib.rs): the per-location intensity histograms of a PatchModel,     *)
(* their quantisation into a PatchDescriptor, the discrepancy score, the   *)
(* bit counting loop and the patch sampler.                                *)
(*                                                                         *)
(* Machine words are kept at their width.  A u64 is the set of the         *)
(* positions of its 1 bits (a subset of 0..63); a u32 that may wrap is a   *)
(* pair of 16-bit halves; an f32 is a 24-bit mantissa and an exponent.     *)
(***************************************************************************)
EXTENDS Integers, Sequences, FiniteSets, TLC

\* ------------------------------------------------------------------ sizes

\* hists: [PointHist; 64]
NumLocations == 64

\* PointHist = [u32; 5], PatchDescriptor = [u64; 5]
NumBins == 5

\* the width of a u64 word
WordBits == 64

\* the divisor of bin()
BinWidth == 52

Locations == 0..(NumLocations - 1)

Bins == 0..(NumBins - 1)

BitPositions == 0..(WordBits - 1)

U8Values == 0..255

\* ------------------------------------------------------------ f32 values

\* An f32 that is not negative: zero, m * 2^e with 2^23 <= m < 2^24, +inf, NaN.
F32Zero == [k |-> "zero", m |-> 0, e |-> 0]

F32NaN == [k |-> "nan", m |-> 0, e |-> 0]

F32Inf == [k |-> "inf", m |-> 0, e |-> 0]

\* the number of mantissa bits of an f32, the hidden bit included
F32Precision == 24

F32Num(m, e) == [k |-> "num", m |-> m, e |-> e]

\* The number of bits of n, for 0 <= n < 2^31.
BitLength(n) == Cardinality({k \in 0..30 : 2^k <= n})

\* q * 2^e rounded to the nearest f32, ties to even; lost is what was cut off
\* below q, as twice its share of one unit of q (0: nothing, 1: less than a
\* half, 2: a half, 3: more than a half).
F32Round(q, lost, e) ==
    LET up == lost = 3 \/ (lost = 2 /\ q % 2 = 1)
        m  == IF up THEN q + 1 ELSE q
    IN  IF m = 2^(F32Precision) THEN F32Num(m \div 2, e + 1) ELSE F32Num(m, e)

\* `n as f32` for an unsigned integer n: exact below 2^24, rounded above.
U32ToF32(n) ==
    IF n = 0 THEN F32Zero
    ELSE LET p == BitLength(n)
         IN  IF p <= F32Precision
             THEN F32Num(n * 2^(F32Precision - p), p - F32Precision)
             ELSE LET s == p - F32Precision
                      q == n \div 2^(s)
                      r == n % 2^(s)
                      h == 2^(s - 1)
                      lost == IF r = 0 THEN 0 ELSE IF r < h THEN 1 ELSE IF r = h THEN 2 ELSE 3
                  IN  F32Round(q, lost, s)

\* Long division in radix 2^7: the quotient and remainder of (r * 2^bits) by d,
\* appended to the quotient q found so far.  r < d < 2^24 keeps r * 2^7 below 2^31.
RECURSIVE LongDiv(_, _, _, _)
LongDiv(q, r, d, bits) ==
    IF bits = 0 THEN <<q, r>>
    ELSE LET step == IF bits >= 7 THEN 7 ELSE bits
             num  == r * 2^(step)
         IN  LongDiv(q * 2^(step) + (num \div d), num % d, d, bits - step)

\* a / b in f32: the exact quotient rounded once to the nearest f32.
F32Div(a, b) ==
    IF a.k = "nan" \/ b.k = "nan" THEN F32NaN
    ELSE IF b.k = "zero" THEN (IF a.k = "zero" THEN F32NaN ELSE F32Inf)
    ELSE IF a.k = "zero" THEN F32Zero
    ELSE LET s  == IF a.m >= b.m THEN F32Precision - 1 ELSE F32Precision
             qr == LongDiv(a.m \div b.m, a.m % b.m, b.m, s)
             q  == qr[1]
             r  == qr[2]
             lost == IF r = 0 THEN 0 ELSE IF 2 * r < b.m THEN 1 ELSE IF 2 * r = b.m THEN 2 ELSE 3
         IN  F32Round(q, lost, a.e - b.e - s)

\* a < b in f32; false when either is NaN.
F32Lt(a, b) ==
    IF a.k = "nan" \/ b.k = "nan" THEN FALSE
    ELSE IF a.k = "inf" THEN FALSE
    ELSE IF b.k = "inf" THEN TRUE
    ELSE IF b.k = "zero" THEN FALSE
    ELSE IF a.k = "zero" THEN TRUE
    ELSE a.e < b.e \/ (a.e = b.e /\ a.m < b.m)

\* The decimal literal num/den read as an f32: the nearest f32 to it.
F32Literal(num, den) == F32Div(U32ToF32(num), U32ToF32(den))

\* the literal 0.05 of quantise, as hundredths
RareNum == 5

RareDen == 100

\* ------------------------------------------------------------- u64 words

\* 1 << pos on a u64; pos is h as u8 with h < 64, so nothing is shifted out.
Shl1(pos) == IF pos < WordBits THEN {pos} ELSE {}

\* n | (1 << pos)
set_bit(n, pos) == n \cup Shl1(pos)

\* a & b
BitAnd(a, b) == a \cap b

\* The lowest 1 bit of a word that is not 0.
LowestBit(y) == CHOOSE k \in y : \A j \in y : k <= j

\* y - 1 on a u64 that is not 0: the borrow runs up to the lowest 1 bit, which
\* is cleared, and sets every bit below it.
Decrement(y) == (y \ {LowestBit(y)}) \cup {k \in BitPositions : k < LowestBit(y)}

\* u64::count_ones
count_ones(w) == Cardinality(w)

\* A variant of count_bits_step: y = y >> 1
count_bits_step_shift(yc) == <<{k - 1 : k \in yc[1] \ {0}}, (yc[2] + 1) % 256>>

\* One pass of the loop of count_bits on <<y, count>>, count a u8.
count_bits_step(yc) == <<BitAnd(yc[1], Decrement(yc[1])), (yc[2] + 1) % 256>>

\* --------------------------------------------------------------- binning

\* A variant of bin: the quotient rounded to the nearest integer
bin_rounded(value) == (value + (BinWidth \div 2)) \div BinWidth

\* bin(value) for a u8: the integer division of two u8
bin(value) == value \div BinWidth

\* ------------------------------------------------------------ PatchModel

\* A model with no sample: every counter 0.
EmptyHists == [h \in Locations |-> [i \in Bins |-> 0]]

\* A descriptor with no bit set: [0u64; 5]
ZeroDescriptor == [i \in Bins |-> {}]

\* A variant of add_at: += 2
add_at_twice(hist, value) == [hist EXCEPT ![bin(value)] = @ + 2]

\* self.hists[i][bin(sample[i])] += 1 for one location
add_at(hist, value) == [hist EXCEPT ![bin(value)] = @ + 1]

\* A variant of add_sample: for i in 0..63
add_sample_short(hs, sample) ==
    [h \in Locations |-> IF h < NumLocations - 1 THEN add_at(hs[h], sample[h]) ELSE hs[h]]

\* PatchModel::add_sample: the histograms after the call
add_sample(hs, sample) == [h \in Locations |-> add_at(hs[h], sample[h])]

\* hist.iter().fold(0, |x, &y| x + y)
RECURSIVE FoldSum(_, _, _)
FoldSum(hist, i, acc) == IF i = NumBins THEN acc ELSE FoldSum(hist, i + 1, acc + hist[i])

\* the literal 0.05, an f32 by inference from the comparison
RareThreshold == F32Literal(RareNum, RareDen)

\* hist[i] as f32 / sum as f32
Fraction(count, sum) == F32Div(U32ToF32(count), U32ToF32(sum))

\* A variant of IsRare: fraction <= 0.05
IsRare_inclusive(count, sum) == ~F32Lt(RareThreshold, Fraction(count, sum))

\* fraction < 0.05
IsRare(count, sum) == F32Lt(Fraction(count, sum), RareThreshold)

\* A variant of quantise_bit: the bin, not the location, picks the bit
quantise_bit_by_bin(hist, h, i) ==
    IF IsRare(hist[i], FoldSum(hist, 0, 0)) THEN set_bit({}, i) ELSE {}

\* What the pass for location h of the loop of quantise ors into descriptor[i]:
\* bit h when bin i is rare among the counters hist of that location.
quantise_bit(hist, h, i) ==
    IF IsRare(hist[i], FoldSum(hist, 0, 0)) THEN set_bit({}, h) ELSE {}

\* PatchModel::quantise: descriptor[i] starts as 0 and the passes h = 0 .. 63
\* or their bits into it.
quantise(hs) == [i \in Bins |-> UNION {quantise_bit(hs[h], h, i) : h \in Locations}]

\* Whether quantise divides by a total of 0 somewhere (a NaN fraction).
DividesByZero(hs) == \E h \in Locations : FoldSum(hs[h], 0, 0) = 0

\* ----------------------------------------------------------- discrepancy

\* A variant of discrepancy_from: patch[i] | model[i]
RECURSIVE discrepancy_from_or(_, _, _, _)
discrepancy_from_or(patch, model, i, count) ==
    IF i = NumBins THEN count
    ELSE discrepancy_from_or(patch, model, i + 1,
                             (count + count_ones(patch[i] \cup model[i])) % 65536)

\* discrepancy of imagematch.rs: count a u16, the intrinsic for the bits
RECURSIVE discrepancy_from(_, _, _, _)
discrepancy_from(patch, model, i, count) ==
    IF i = NumBins THEN count
    ELSE discrepancy_from(patch, model, i + 1,
                          (count + count_ones(BitAnd(patch[i], model[i]))) % 65536)

discrepancy(patch, model) == discrepancy_from(patch, model, 0, 0)

\* ------------------------------------------------------ inputs and bounds

\* add_sample calls a run makes after its first state
MaxSamples == 2

\* identical samples a model may hold in its first state
PreTrainSmall == 19

PreTrainLarge == 98

\* the patch with the value v at every location
ConstPatch(v) == [h \in Locations |-> v]

\* values 0, 4, .., 252: every bin occurs
RampPatch == [h \in Locations |-> 4 * h]

\* two values in turn over the 8x8 grid, in bins 0 and 3
CheckerPatch == [h \in Locations |-> IF ((h \div 8) + (h % 8)) % 2 = 0 THEN 10 ELSE 200]

\* values 104..155, not all the same, all of bin 2
VariedPatch == [h \in Locations |-> 2 * BinWidth + (h % BinWidth)]

\* the normalised patches a caller passes
Patches == {ConstPatch(130), ConstPatch(0), ConstPatch(255), RampPatch, CheckerPatch, VariedPatch}

\* the patches a model is trained with before the run
PrePatches == {ConstPatch(130), VariedPatch, RampPatch}

PreCounts == {0, PreTrainSmall, PreTrainLarge}

\* The histograms that k calls of add_sample with the same sample leave in an
\* empty model: at every location the bin of the sample's value holds k.
trained_with(sample, k) ==
    [h \in Locations |-> [i \in Bins |-> IF i = bin(sample[h]) THEN k ELSE 0]]

\* The integers from 0 up to here are all f32 values; above, `as f32` rounds.
F32Exact == 2^F32Precision

\* totals of a long training: the last one that `as f32` keeps, and one past it
LargeTotals == {F32Exact, F32Exact + 5}

\* The largest count that is less than 5% of the total t.
JustBelowFivePercent(t) == (t - 1) \div 20

\* The histograms that k calls of add_sample with one sample and then m calls
\* with another leave in an empty model.
trained_with_two(sample, k, other, m) ==
    [h \in Locations |->
        [i \in Bins |-> (IF i = bin(sample[h]) THEN k ELSE 0)
                          + (IF i = bin(other[h]) THEN m ELSE 0)]]

\* ------------------------------------------------------------------ state

VARIABLES
    hists,      \* PatchModel.hists
    nsamples,   \* add_sample calls made on the model since it was created
    uniform,    \* whether every sample so far was one and the same patch
    budget,     \* add_sample calls the run may still make
    lastop,     \* the last call: "new", "add_sample", "quantise", "match"
    arg,        \* the patch the last add_sample or match was given
    desc,       \* the descriptor the last quantise of the model returned
    divzero,    \* whether that quantise divided by a total of 0
    score       \* the score the last match returned

pmVars == <<hists, nsamples, uniform, budget, lastop, arg, desc, divzero, score>>

NoPatch == ConstPatch(0)

\* A PatchModel with every counter 0, or one that add_sample has trained
\* with k identical samples, or one of a long training with two patches, the
\* second of them just below 5% of the samples.
PatchModelInit ==
    /\ \/ \E p \in PrePatches, k \in PreCounts :
             /\ hists = trained_with(p, k)
             /\ nsamples = k
             /\ uniform = IF k = 0 THEN [k |-> "none", p |-> NoPatch]
                          ELSE [k |-> "same", p |-> p]
       \/ \E t \in LargeTotals :
             /\ hists = trained_with_two(ConstPatch(130), t - JustBelowFivePercent(t),
                                         ConstPatch(0), JustBelowFivePercent(t))
             /\ nsamples = t
             /\ uniform = [k |-> "mixed", p |-> NoPatch]
    /\ budget = MaxSamples
    /\ lastop = "new"
    /\ arg = NoPatch
    /\ desc = ZeroDescriptor
    /\ divzero = FALSE
    /\ score = 0

\* model.add_sample(&sample)
AddSample(sample) ==
    /\ budget > 0
    /\ hists' = add_sample(hists, sample)
    /\ nsamples' = nsamples + 1
    /\ uniform' = IF uniform.k = "none" THEN [k |-> "same", p |-> sample]
                  ELSE IF uniform.k = "same" /\ uniform.p = sample THEN uniform
                  ELSE [k |-> "mixed", p |-> NoPatch]
    /\ budget' = budget - 1
    /\ lastop' = "add_sample"
    /\ arg' = sample
    /\ desc' = ZeroDescriptor
    /\ divzero' = FALSE
    /\ score' = 0

\* A variant of Quantise: the call takes the counters with it
Quantise_draining ==
    /\ hists' = EmptyHists
    /\ desc' = quantise(hists)
    /\ divzero' = DividesByZero(hists)
    /\ lastop' = "quantise"
    /\ arg' = NoPatch
    /\ score' = 0
    /\ UNCHANGED <<nsamples, uniform, budget>>

\* model.quantise()
Quantise ==
    /\ hists' = hists
    /\ desc' = quantise(hists)
    /\ divzero' = DividesByZero(hists)
    /\ lastop' = "quantise"
    /\ arg' = NoPatch
    /\ score' = 0
    /\ UNCHANGED <<nsamples, uniform, budget>>

\* The descriptor of a single patch: the patch added to a model of its own,
\* which is then quantised.
query_descriptor(q) == quantise(add_sample(EmptyHists, q))

\* Query time: a patch is quantised and scored against the model's descriptor.
Match(q) ==
    /\ lastop = "quantise"
    /\ score' = discrepancy(query_descriptor(q), desc)
    /\ lastop' = "match"
    /\ arg' = q
    /\ UNCHANGED <<hists, nsamples, uniform, budget, desc, divzero>>

\* ----------------------------------------------------- lib.rs: count_bits

\* the descriptors discrepancy is given
Words ==
    { {}, {0}, {0, 1}, {0, 2}, {63}, BitPositions,
      {k \in BitPositions : k % 2 = 0}, {k \in BitPositions : k >= 32} }

Descriptors ==
    {[i \in Bins |-> w] : w \in Words}
        \cup {quantise(trained_with(p, 1)) : p \in {ConstPatch(130), RampPatch, CheckerPatch}}
        \cup {[i \in Bins |-> IF i % 2 = 0 THEN BitPositions ELSE {0, 1}]}

VARIABLES
    dpatch,     \* discrepancy's argument patch
    dmodel,     \* discrepancy's argument model
    dpc,        \* where the call is: "call", "for", "count_bits", "returned", "done"
    di,         \* the loop variable i of discrepancy
    dcount,     \* discrepancy's count: u16
    cby,        \* count_bits' y
    cbcount,    \* count_bits' count: u8
    lib_score,  \* what discrepancy of lib.rs returned
    im_score    \* what discrepancy of imagematch.rs returned

bitVars == <<dpatch, dmodel, dpc, di, dcount, cby, cbcount, lib_score, im_score>>

BitsInit ==
    /\ dpatch \in Descriptors
    /\ dmodel \in Descriptors
    /\ dpc = "call"
    /\ di = 0
    /\ dcount = 0
    /\ cby = {}
    /\ cbcount = 0
    /\ lib_score = 0
    /\ im_score = 0

\* let mut count = 0u16;
DiscrepancyCall ==
    /\ dpc = "call"
    /\ dpc' = "for"
    /\ di' = 0
    /\ dcount' = 0
    /\ UNCHANGED <<dpatch, dmodel, cby, cbcount, lib_score, im_score>>

\* for i in 0..5 { let intersect = patch[i] & model[i]; count_bits(intersect) ..
\* and, past the loop, the return of count
DiscrepancyFor ==
    /\ dpc = "for"
    /\ IF di < NumBins
       THEN /\ cby' = BitAnd(dpatch[di], dmodel[di])
            /\ cbcount' = 0
            /\ dpc' = "count_bits"
            /\ UNCHANGED lib_score
       ELSE /\ lib_score' = dcount
            /\ dpc' = "returned"
            /\ UNCHANGED <<cby, cbcount>>
    /\ UNCHANGED <<dpatch, dmodel, di, dcount, im_score>>

\* count += 1; y = y & y - 1;
CountBitsPass ==
    /\ dpc = "count_bits"
    /\ cby # {}
    /\ cby' = count_bits_step(<<cby, cbcount>>)[1]
    /\ cbcount' = count_bits_step(<<cby, cbcount>>)[2]
    /\ UNCHANGED <<dpatch, dmodel, dpc, di, dcount, lib_score, im_score>>

\* if y == 0 { break; } and, in discrepancy, count += count_bits(..) as u16
CountBitsBreak ==
    /\ dpc = "count_bits"
    /\ cby = {}
    /\ dcount' = (dcount + cbcount) % 65536
    /\ di' = di + 1
    /\ dpc' = "for"
    /\ UNCHANGED <<dpatch, dmodel, cby, cbcount, lib_score, im_score>>

\* the same arguments given to discrepancy of imagematch.rs
DiscrepancyIntrinsic ==
    /\ dpc = "returned"
    /\ im_score' = discrepancy(dpatch, dmodel)
    /\ dpc' = "done"
    /\ UNCHANGED <<dpatch, dmodel, di, dcount, cby, cbcount, lib_score>>

\* ------------------------------------------------------------------- bin

VARIABLES
    bin_in,     \* two u8 values
    bin_out,    \* bin of each
    bin_pc      \* "call", "returned"

binVars == <<bin_in, bin_out, bin_pc>>

BinInit ==
    /\ bin_in \in U8Values \X U8Values
    /\ bin_out = <<0, 0>>
    /\ bin_pc = "call"

ApplyBin ==
    /\ bin_pc = "call"
    /\ bin_out' = <<bin(bin_in[1]), bin(bin_in[2])>>
    /\ bin_pc' = "returned"
    /\ UNCHANGED bin_in

\* ------------------------------------------------------------ u32 values

\* A u32 is a pair of 16-bit halves; an operation gives its value modulo 2^32
\* and whether it wrapped (overflowed or underflowed).
Half == 65536

U32(n) == [hi |-> n \div Half, lo |-> n % Half]

Add32(a, b) ==
    LET lo == a.lo + b.lo
        hi == a.hi + b.hi + (lo \div Half)
    IN  [v |-> [hi |-> hi % Half, lo |-> lo % Half], wrapped |-> hi >= Half]

Sub32(a, b) ==
    LET lo == a.lo - b.lo
        hi == a.hi - b.hi - (IF lo < 0 THEN 1 ELSE 0)
    IN  [v |-> [hi |-> (hi + Half) % Half, lo |-> (lo + Half) % Half], wrapped |-> hi < 0]

\* The bytes of a u32, the lowest first.
Bytes32(a) == <<a.lo % 256, a.lo \div 256, a.hi % 256, a.hi \div 256>>

\* Byte i (from 0) of the bytes x of a u32, 0 past its end.
Digit(x, i) == IF i \in 0..3 THEN x[i + 1] ELSE 0

\* Column k of the schoolbook product: the products x[i] * y[j] with i + j = k.
ColumnSum(x, y, k) ==
    Digit(x, 0) * Digit(y, k) + Digit(x, 1) * Digit(y, k - 1)
        + Digit(x, 2) * Digit(y, k - 2) + Digit(x, 3) * Digit(y, k - 3)

\* The 8 bytes of the product from column k up, given the carry into it.
RECURSIVE MulBytes(_, _, _, _)
MulBytes(x, y, k, carry) ==
    IF k = 8 THEN <<>>
    ELSE LET t == ColumnSum(x, y, k) + carry
         IN  <<t % 256>> \o MulBytes(x, y, k + 1, t \div 256)

\* a * b: the low 4 bytes of the product; it wrapped when a higher byte is set.
Mul32(a, b) ==
    LET r == MulBytes(Bytes32(a), Bytes32(b), 0, 0)
    IN  [v |-> [hi |-> r[3] + 256 * r[4], lo |-> r[1] + 256 * r[2]],
         wrapped |-> \E k \in 5..8 : r[k] > 0]

Lt32(a, b) == a.hi < b.hi \/ (a.hi = b.hi /\ a.lo < b.lo)

Ge32(a, b) == ~Lt32(a, b)

\* ---------------------------------------------------------- sample_patch

\* the margin sample_patch asks for, and the last offset
Margin == 7

\* offsets per axis: (0..8)
GridSide == 8

\* the largest coordinate of a point a run samples
MaxCoord == 21

\* (width, height) of the images a run samples
ImageSizes == {<<15, 15>>, <<16, 15>>, <<15, 17>>, <<20, 20>>, <<14, 20>>, <<20, 9>>}

\* what the pixels of an image hold
ImageKinds == {"xy", "yx"}

\* image.get_pixel(cx, cy)[0] for a coordinate inside the image
PixelAt(img, cx, cy) ==
    IF img.kind = "xy" THEN (cx + 32 * cy) % 256 ELSE (cy + 32 * cx) % 256

ToInt(a) == a.hi * Half + a.lo

InImage(img, c) == Lt32(c[1], U32(img.width)) /\ Lt32(c[2], U32(img.height))

\* (0..8).map(|x| 2 * x - 7): the offsets are u32, as x + dx must be
Offset(k) ==
    LET m == Mul32(U32(2), U32(k))
        d == Sub32(m.v, U32(Margin))
    IN  [v |-> d.v, wrapped |-> m.wrapped \/ d.wrapped]

\* offsets: the collected Vec
Offsets == [k \in 1..GridSide |-> Offset(k - 1)]

\* The coordinate get_pixel is given in pass count of the loops: dy is the
\* outer loop, dx the inner one.
ReadAt(x, y, count) ==
    LET dx == Offsets[(count % GridSide) + 1]
        dy == Offsets[(count \div GridSide) + 1]
        cx == Add32(x, dx.v)
        cy == Add32(y, dy.v)
    IN  [c |-> <<cx.v, cy.v>>,
         wrapped |-> dx.wrapped \/ dy.wrapped \/ cx.wrapped \/ cy.wrapped]

\* x < 7 || y < 7 || x + 7 >= width || y + 7 >= height, left to right
Guard(img, x, y) ==
    IF Lt32(x, U32(Margin)) \/ Lt32(y, U32(Margin))
    THEN [reject |-> TRUE, wrapped |-> FALSE]
    ELSE LET ax == Add32(x, U32(Margin))
             ay == Add32(y, U32(Margin))
         IN  IF Ge32(ax.v, U32(img.width))
             THEN [reject |-> TRUE, wrapped |-> ax.wrapped]
             ELSE [reject |-> Ge32(ay.v, U32(img.height)),
                   wrapped |-> ax.wrapped \/ ay.wrapped]

Counts == 0..(GridSide * GridSide - 1)

NoSample == [kind |-> "None", patch |-> <<>>, reads |-> <<>>, wrapped |-> FALSE]

\* sample_patch(image, x, y).  With overflow checks (a debug build) an
\* operation that wraps panics; without them (a release build) it wraps.
\* get_pixel panics outside the image.
sample_patch(img, x, y, checks) ==
    LET g    == Guard(img, x, y)
        wrap == g.wrapped \/ \E n \in Counts : ReadAt(x, y, n).wrapped
        bad  == {n \in Counts : ~InImage(img, ReadAt(x, y, n).c)}
        last == IF bad = {} THEN GridSide * GridSide - 1
                ELSE CHOOSE n \in bad : \A j \in bad : n <= j
        reads == [n \in 1..(last + 1) |-> ReadAt(x, y, n - 1).c]
    IN  IF g.wrapped /\ checks THEN [NoSample EXCEPT !.kind = "panic", !.wrapped = TRUE]
        ELSE IF g.reject THEN [NoSample EXCEPT !.wrapped = g.wrapped]
        ELSE IF wrap /\ checks THEN [NoSample EXCEPT !.kind = "panic", !.wrapped = TRUE]
        ELSE IF bad # {}
             THEN [kind |-> "panic", patch |-> <<>>, reads |-> reads, wrapped |-> wrap]
        ELSE [kind |-> "Some",
              patch |-> [n \in 1..(GridSide * GridSide) |->
                            PixelAt(img, ToInt(reads[n][1]), ToInt(reads[n][2]))],
              reads |-> reads,
              wrapped |-> wrap]

VARIABLES
    image,            \* the image: width, height and what its pixels hold
    overflow_checks,  \* whether the build checks integer overflow
    spoint,           \* the point (x, y) sample_patch is given
    sres,             \* what sample_patch returned
    spc               \* "call", "returned"

sampleVars == <<image, overflow_checks, spoint, sres, spc>>

SampleInit ==
    /\ \E wh \in ImageSizes, kind \in ImageKinds :
          image = [width |-> wh[1], height |-> wh[2], kind |-> kind]
    /\ overflow_checks \in BOOLEAN
    /\ spoint = <<0, 0>>
    /\ sres = NoSample
    /\ spc = "call"

SamplePatch(x, y) ==
    /\ spc = "call"
    /\ spoint' = <<x, y>>
    /\ sres' = sample_patch(image, U32(x), U32(y), overflow_checks)
    /\ spc' = "returned"
    /\ UNCHANGED <<image, overflow_checks>>

\* --------------------------------------------------------- specifications

vars == <<pmVars, bitVars, binVars, sampleVars>>

\* The parts of the state a specification leaves alone.
PatchModelIdle ==
    /\ hists = EmptyHists
    /\ nsamples = 0
    /\ uniform = [k |-> "none", p |-> NoPatch]
    /\ budget = 0
    /\ lastop = "new"
    /\ arg = NoPatch
    /\ desc = ZeroDescriptor
    /\ divzero = FALSE
    /\ score = 0

BitsIdle ==
    /\ dpatch = ZeroDescriptor
    /\ dmodel = ZeroDescriptor
    /\ dpc = "idle"
    /\ di = 0
    /\ dcount = 0
    /\ cby = {}
    /\ cbcount = 0
    /\ lib_score = 0
    /\ im_score = 0

BinIdle ==
    /\ bin_in = <<0, 0>>
    /\ bin_out = <<0, 0>>
    /\ bin_pc = "idle"

SampleIdle ==
    /\ image = [width |-> 0, height |-> 0, kind |-> "xy"]
    /\ overflow_checks = FALSE
    /\ spoint = <<0, 0>>
    /\ sres = NoSample
    /\ spc = "idle"

\* A PatchModel that is trained, quantised and matched against.
Init == PatchModelInit /\ BitsIdle /\ BinIdle /\ SampleIdle

Train == \E sample \in Patches : AddSample(sample) /\ UNCHANGED <<bitVars, binVars, sampleVars>>

Describe == Quantise /\ UNCHANGED <<bitVars, binVars, sampleVars>>

Query == \E q \in Patches : Match(q) /\ UNCHANGED <<bitVars, binVars, sampleVars>>

Next == Train \/ Describe \/ Query

Spec == Init /\ [][Next]_vars

\* discrepancy of lib.rs, run pass by pass, then that of imagematch.rs.  A
\* call that can take a step takes it.
InitBits == BitsInit /\ PatchModelIdle /\ BinIdle /\ SampleIdle

NextBits ==
    \/ DiscrepancyCall /\ UNCHANGED <<pmVars, binVars, sampleVars>>
    \/ DiscrepancyFor /\ UNCHANGED <<pmVars, binVars, sampleVars>>
    \/ CountBitsPass /\ UNCHANGED <<pmVars, binVars, sampleVars>>
    \/ CountBitsBreak /\ UNCHANGED <<pmVars, binVars, sampleVars>>
    \/ DiscrepancyIntrinsic /\ UNCHANGED <<pmVars, binVars, sampleVars>>

SpecBits == InitBits /\ [][NextBits]_vars /\ WF_vars(NextBits)

\* bin applied to every pair of u8 values.
InitBin == BinInit /\ PatchModelIdle /\ BitsIdle /\ SampleIdle

NextBin == ApplyBin /\ UNCHANGED <<pmVars, bitVars, sampleVars>>

SpecBin == InitBin /\ [][NextBin]_vars

\* sample_patch called once on an image, in a build with or without
\* overflow checks.
InitSample == SampleInit /\ PatchModelIdle /\ BitsIdle /\ BinIdle

NextSample ==
    /\ \E x \in 0..MaxCoord, y \in 0..MaxCoord : SamplePatch(x, y)
    /\ UNCHANGED <<pmVars, bitVars, binVars>>

SpecSample == InitSample /\ [][NextSample]_vars

\* ----------------------------------------------------------------- claims

\* The counters of location h, added up.
TotalAt(hs, h) == hs[h][0] + hs[h][1] + hs[h][2] + hs[h][3] + hs[h][4]

\* desc is the descriptor of the model as it is now.
Quantised == lastop \in {"quantise", "match"}

\* The bits set in a descriptor, over its 5 words.
BitTotal(d) == Cardinality({hi \in Locations \X Bins : hi[1] \in d[hi[2]]})

\* The point pt is at least 7 pixels from every edge of img.
Inside(img, pt) ==
    /\ pt[1] >= 7
    /\ pt[2] >= 7
    /\ pt[1] + 7 < img.width
    /\ pt[2] + 7 < img.height

\* ---- C1 (as stated; the debug build refutes it)
\* sample_patch returns Some(patch of 64 values) exactly when x >= 7, y >= 7,
\* x + 7 < width and y + 7 < height, and None otherwise.
C1_SomeIffInside ==
    spc = "returned" =>
        IF Inside(image, spoint)
        THEN sres.kind = "Some" /\ Len(sres.patch) = 64
        ELSE sres.kind = "None"

PopSum(a, b) ==
    Cardinality(a[0] \cap b[0]) + Cardinality(a[1] \cap b[1]) + Cardinality(a[2] \cap b[2])
        + Cardinality(a[3] \cap b[3]) + Cardinality(a[4] \cap b[4])

\* What the loop of count_bits keeps, and what the two functions return.
C4_Safe ==
    /\ dpc = "count_bits" =>
          cbcount + Cardinality(cby) = Cardinality(dpatch[di] \cap dmodel[di])
    /\ dpc \in {"returned", "done"} =>
          /\ lib_score = PopSum(dpatch, dmodel)
          /\ lib_score \in 0..320
    /\ dpc = "done" =>
          /\ im_score = PopSum(dpatch, dmodel)
          /\ im_score = lib_score

\* ---- C4
\* discrepancy returns the sum over the 5 elements of the number of 1 bits of
\* patch[i] & model[i], a value in 0..320; the loop of count_bits ends, and
\* counts what count_ones counts.
C4_PopcountSumAndTermination == []C4_Safe /\ <>(dpc = "done")

\* Both functions returned 320: every word of both descriptors was all ones.
C4_Witness ==
    /\ dpc = "done"
    /\ \A i \in Bins : dpatch[i] = BitPositions /\ dmodel[i] = BitPositions
    /\ lib_score = 320
    /\ im_score = 320

\* The locations at which d marks the bin that q shows.
ObservedRare(q, d) == Cardinality({h \in Locations : h \in d[bin(q[h])]})

OtherBinsRare(q, d) ==
    Cardinality({hi \in Locations \X Bins : hi[2] # bin(q[hi[1]]) /\ hi[1] \in d[hi[2]]})

C7_BinIsFloorOfFiftySecond ==
    bin_pc = "returned" =>
        LET v == bin_in[1]
            w == bin_in[2]
            b == bin_out[1]
            c == bin_out[2]
        IN  /\ 52 * b <= v
            /\ v < 52 * (b + 1)
            /\ v <= w => b <= c
            /\ b \in 0..4
            /\ b \in DOMAIN EmptyHists[0]
            /\ v = 0 => b = 0
            /\ v = 51 => b = 0
            /\ v = 52 => b = 1
            /\ v = 255 => b = 4

\* bin applied to 52 and to 255.
C7_Witness ==
    /\ bin_pc = "returned"
    /\ bin_in = <<52, 255>>
    /\ bin_out = <<1, 4>>

\* The offset o[k] of the grid, as an integer.
GridOffset(k) == 2 * k - 7

\* ---- C8 (as stated; refuted in every build)
\* When sample_patch accepts (x, y), element 8 * r + c of the patch is the
\* pixel at (x + o[c], y + o[r]) with o = (-7, -5, -3, -1, 1, 3, 5, 7); the
\* u32 arithmetic of the offsets and coordinates never wraps, and every
\* coordinate read lies inside the image.
C8_GridWithoutWrap ==
    (spc = "returned" /\ sres.kind # "None") =>
        /\ sres.kind = "Some"
        /\ ~sres.wrapped
        /\ \A r \in 0..7, c \in 0..7 :
              sres.patch[8 * r + c + 1]
                  = PixelAt(image, spoint[1] + GridOffset(c), spoint[2] + GridOffset(r))
        /\ \A n \in 1..Len(sres.reads) : InImage(image, sres.reads[n])

====
